---- MODULE Spec2Model ----
(***************************************************************************)
(* Model of the webhook receiver (apps/api/src/index.ts) and of the GitHub *)
(* App comment helper (apps/api/src/lib/github.ts).                        *)
(*                                                                         *)
(* JavaScript values are records [t, v]: t is the type tag and v the text  *)
(* of the value.  Objects are [t, m] with m the sequence of <<key, value>> *)
(* members in source order.  A request body is the sequence of its JSON    *)
(* tokens; Text(body) is the raw text that was received.                   *)
(***************************************************************************)
EXTENDS Integers, Sequences, FiniteSets, TLC

VARIABLES
    req,        \* the delivery being handled: [event, deliveryId, signature, body]
    libError,   \* the verification library raises an error on this delivery
    pc,         \* position of the handler of POST /api/webhooks
    verified,   \* outcome of webhooks.verify: "none", "true", "false", "threw"
    parsed,     \* outcome of JSON.parse: "none", "ok", "threw"
    payload,    \* the parsed payload
    logs,       \* console lines written while handling this delivery
    responses,  \* responses returned by the handler for this delivery
    escaped,    \* an error left the handler uncaught
    memo,       \* responses given to the earlier deliveries of this same request
    replays,    \* how many times the current delivery is a replay
    env,        \* process.env as createReviewComment reads it
    cpc,        \* position of createReviewComment
    authOptions,\* the auth object given to new Octokit
    authType,   \* the type asked of octokit.auth: "none", "app", "installation"
    calls,      \* library and network calls made by this invocation, in order
    clogs,      \* console lines written by this invocation
    cresponses, \* responses returned by this invocation
    cescaped,   \* an error left createReviewComment uncaught
    webhookSecret, \* the secret the Webhooks instance was built with
    spc,        \* position of setupOpenCodeServer
    runs,       \* how many times setupOpenCodeServer was started
    live,       \* the sandboxes that exist at the provider
    created,    \* the sandbox daytona.createSandbox gave this run, 0 if none
    sandbox,    \* the local variable sandbox: 0 for null, else the sandbox id
    handlers,   \* the sandboxes with a SIGINT/SIGTERM cleanup handler
    sresult     \* how this run ended: "none", "returned", "threw"

wvars == <<req, libError, pc, verified, parsed, payload, logs, responses,
           escaped, memo, replays, webhookSecret>>

svars == <<spc, runs, live, created, sandbox, handlers, sresult>>

cvars == <<env, cpc, authOptions, authType, calls, clogs, cresponses, cescaped>>

----------------------------------------------------------------------------
(* JavaScript values *)

Undefined == [t |-> "undefined", v |-> "undefined"]
Null == [t |-> "null", v |-> "null"]
JStr(s) == [t |-> "str", v |-> s]
JNum(s) == [t |-> "num", v |-> s]
JBool(s) == [t |-> "bool", v |-> s]
JObj(members) == [t |-> "obj", m |-> members]

\* !x for the values the handler tests: undefined, null and "" are falsy
Falsy(x) == x.t \in {"undefined", "null"} \/ (x.t = "str" /\ x.v = "")

\* `${x}` in a template literal
Show(x) == IF x.t = "obj" THEN "[object Object]" ELSE x.v

\* x === "literal"
StrictEqStr(x, s) == x.t = "str" /\ x.v = s

\* the index of the last member named key, 0 when there is none
RECURSIVE LastIndex(_, _, _)
LastIndex(members, key, i) ==
    IF i = 0 THEN 0
    ELSE IF members[i][1] = key THEN i
    ELSE LastIndex(members, key, i - 1)

\* x.key throws a TypeError on undefined and null
GetThrows(x) == x.t \in {"undefined", "null"}

\* x.key when it does not throw
Get(x, key) ==
    IF x.t # "obj" THEN Undefined
    ELSE LET i == LastIndex(x.m, key, Len(x.m))
         IN IF i = 0 THEN Undefined ELSE x.m[i][2]

\* x?.key
OptGet(x, key) == IF GetThrows(x) THEN Undefined ELSE Get(x, key)

----------------------------------------------------------------------------
(* Request bodies: JSON tokens, their raw text, and JSON.parse *)

P(s) == [k |-> "p", s |-> s]        \* punctuation
S(s) == [k |-> "str", s |-> s]      \* a string literal
N(s) == [k |-> "num", s |-> s]      \* a number literal
L(s) == [k |-> "lit", s |-> s]      \* null, true, false

TokenText(tok) == IF tok.k = "str" THEN "\"" \o tok.s \o "\"" ELSE tok.s

\* the raw text of a body, byte for byte as received
RECURSIVE Text(_)
Text(toks) == IF toks = <<>> THEN "" ELSE TokenText(Head(toks)) \o Text(Tail(toks))

ParseFail == [ok |-> FALSE, val |-> Undefined, rest |-> <<>>]
ParseOk(val, rest) == [ok |-> TRUE, val |-> val, rest |-> rest]

LitValue(s) == IF s = "null" THEN Null ELSE JBool(s)

RECURSIVE ParseValue(_)
RECURSIVE ParseMembers(_, _)

\* the members of an object after its opening brace
ParseMembers(toks, acc) ==
    IF Len(toks) < 3 \/ toks[1].k # "str" \/ toks[2] # P(":") THEN ParseFail
    ELSE LET r == ParseValue(SubSeq(toks, 3, Len(toks)))
             members == Append(acc, <<toks[1].s, r.val>>)
         IN IF ~r.ok \/ r.rest = <<>> THEN ParseFail
            ELSE IF Head(r.rest) = P("}") THEN ParseOk(JObj(members), Tail(r.rest))
            ELSE IF Head(r.rest) = P(",") THEN ParseMembers(Tail(r.rest), members)
            ELSE ParseFail

ParseValue(toks) ==
    IF toks = <<>> THEN ParseFail
    ELSE LET h == Head(toks)
         IN CASE h.k = "lit" -> ParseOk(LitValue(h.s), Tail(toks))
              [] h.k = "num" -> ParseOk(JNum(h.s), Tail(toks))
              [] h.k = "str" -> ParseOk(JStr(h.s), Tail(toks))
              [] h = P("{") ->
                    IF Len(toks) >= 2 /\ toks[2] = P("}")
                    THEN ParseOk(JObj(<<>>), SubSeq(toks, 3, Len(toks)))
                    ELSE ParseMembers(Tail(toks), <<>>)
              [] OTHER -> ParseFail

\* a parser that stops at the end of the first value and ignores what follows
JSONparseLoose(toks) ==
    LET r == ParseValue(toks)
    IN IF r.ok THEN ParseOk(r.val, <<>>) ELSE ParseFail

\* JSON.parse(body): ok is FALSE where it throws a SyntaxError
JSONparse(toks) ==
    LET r == ParseValue(toks)
    IN IF r.ok /\ r.rest = <<>> THEN r ELSE ParseFail

----------------------------------------------------------------------------
(* The signature: an ideal keyed digest of the raw text *)

Secret == "s3cret"          \* GITHUB_WEBHOOK_SECRET of this process
OtherSecret == "guess"      \* a secret the sender may hold instead

\* webhooks.sign: the digest header value for a body under a secret
sign(secret, body) == "sha256=" \o secret \o "/" \o Text(body)

\* webhooks.verify(body, signature): the promise resolves to true when the
\* signature is the digest of body under the secret and to false otherwise
verify(body, signature) == signature.v = sign(webhookSecret, body)

----------------------------------------------------------------------------
(* The deliveries the transport may hand to the handler *)

MaxReplays == 2     \* replays of one delivery that a run follows

PrFull == <<P("{"), S("number"), P(":"), N("42"), P(","), S("title"), P(":"),
            S("Fix bug"), P(","), S("user"), P(":"), P("{"), S("login"), P(":"),
            S("alice"), P("}"), P("}")>>
PrMerged(flag) == <<P("{"), S("number"), P(":"), N("42"), P(","), S("merged"),
                    P(":"), L(flag), P("}")>>
PrNoUser == <<P("{"), S("number"), P(":"), N("7"), P(","), S("user"), P(":"),
              L("null"), P("}")>>

\* {"action": <action>, "pull_request": <pr>}
Event(action, pr) == <<P("{"), S("action"), P(":"), S(action), P(","),
                       S("pull_request"), P(":")>> \o pr \o <<P("}")>>

WellFormedBodies ==
    { Event("opened", PrFull),
      Event("closed", PrMerged("true")),
      Event("closed", PrMerged("false")),
      Event("synchronize", PrNoUser),
      Event("labeled", <<S("not a pull request")>>),
      <<P("{"), S("action"), P(":"), S("reopened"), P("}")>>,
      <<P("{"), S("pull_request"), P(":"), L("null"), P("}")>>,
      <<P("{"), P("}")>>,
      <<L("null")>>,
      <<N("42")>>,
      <<S("opened")>> }

MalformedBodies ==
    { <<P("{")>>,
      <<P("{"), S("action"), P(":"), P("}")>>,
      <<P("{"), S("action"), P(":"), S("opened")>>,
      <<P("{"), P("}"), P("}")>>,
      <<N("42"), N("42")>> }

EmptyBody == <<>>

Bodies == WellFormedBodies \cup MalformedBodies \cup {EmptyBody}

Events == {Undefined, JStr(""), JStr("pull_request"), JStr("push")}

DeliveryIds == {Undefined, JStr("72d3162e")}

\* the signature headers a sender may attach to body
Signatures(body) ==
    { Undefined, JStr(""),
      JStr(sign(Secret, body)),
      JStr(sign(OtherSecret, body)),
      JStr(sign(Secret, <<P("{"), P("}")>> \o body)) }

NoRequest == [event |-> Undefined, deliveryId |-> Undefined,
              signature |-> Undefined, body |-> EmptyBody]

----------------------------------------------------------------------------
(* The handler of POST /api/webhooks *)

\* c.json(object, status): JSON.stringify leaves out undefined members
cjson(members, status) ==
    [status |-> status, body |-> {mem \in members : mem[2].t # "undefined"}]

MissingResponse ==
    cjson({<<"error", JStr("Missing required headers or body")>>}, 400)
InvalidSignatureResponse == cjson({<<"error", JStr("Invalid signature")>>}, 401)
InvalidJsonResponse == cjson({<<"error", JStr("Invalid JSON payload")>>}, 400)
\* an acknowledgement that marks a delivery it has answered before
AckDeduplicated ==
    cjson({<<"ok", JBool("true")>>, <<"event", req.event>>,
           <<"deliveryId", req.deliveryId>>,
           <<"duplicate", IF memo = {} THEN Undefined ELSE JBool("true")>>}, 200)

AckResponse ==
    cjson({<<"ok", JBool("true")>>, <<"event", req.event>>,
           <<"deliveryId", req.deliveryId>>}, 200)

\* a presence check that forgets the body
MissingHeaderOnly == Falsy(req.event) \/ Falsy(req.signature)

\* !event || !signature || !body
Missing == Falsy(req.event) \/ Falsy(req.signature) \/ Text(req.body) = ""

Line(level, text) == [level |-> level, text |-> text]

ReceivedLine ==
    Line("log", "Received GitHub webhook: " \o Show(req.event)
                \o " (delivery: " \o Show(req.deliveryId) \o ")")

\* the two lines written for a pull_request event
PullRequestLines ==
    LET action == Get(payload, "action")
        pr == Get(payload, "pull_request")
        prNumber == Show(OptGet(pr, "number"))
        title == Show(OptGet(pr, "title"))
        author == Show(OptGet(OptGet(pr, "user"), "login"))
        merged == Show(OptGet(pr, "merged"))
        head == "Pull request #" \o prNumber
    IN << Line("log", head \o ": " \o title \o " (" \o Show(action) \o ") by "
                      \o author),
          CASE StrictEqStr(action, "opened") ->
                 Line("log", "New pull request #" \o prNumber \o " opened by "
                             \o author)
            [] StrictEqStr(action, "closed") ->
                 Line("log", head \o " closed (merged: " \o merged \o ")")
            [] StrictEqStr(action, "reopened") -> Line("log", head \o " reopened")
            [] StrictEqStr(action, "synchronize") ->
                 Line("log", head \o " updated with new commits")
            [] OTHER -> Line("log", head \o " action: " \o Show(action)) >>

Fresh(r, e) ==
    /\ req' = r
    /\ libError' = e
    /\ pc' = "check"
    /\ verified' = "none"
    /\ parsed' = "none"
    /\ payload' = Undefined
    /\ logs' = <<>>
    /\ responses' = <<>>
    /\ escaped' = FALSE

\* a new delivery arrives (once the replays of the last one were followed):
\* headers and body are read
Receive ==
    /\ pc = "idle"
    /\ memo = {} \/ replays = MaxReplays
    /\ \E ev \in Events, id \in DeliveryIds, body \in Bodies, e \in BOOLEAN :
         \E sig \in Signatures(body) :
            Fresh([event |-> ev, deliveryId |-> id, signature |-> sig,
                   body |-> body], e)
    /\ memo' = {}
    /\ replays' = 0
    /\ UNCHANGED <<webhookSecret, cvars, svars>>

\* the same delivery arrives again
Replay ==
    /\ pc = "idle"
    /\ memo # {}
    /\ replays < MaxReplays
    /\ Fresh(req, libError)
    /\ replays' = replays + 1
    /\ UNCHANGED memo
    /\ UNCHANGED <<webhookSecret, cvars, svars>>

CheckPresence ==
    /\ pc = "check"
    /\ IF Missing
       THEN /\ responses' = Append(responses, MissingResponse)
            /\ pc' = "done"
       ELSE /\ pc' = "verify"
            /\ UNCHANGED responses
    /\ UNCHANGED <<req, libError, verified, parsed, payload, logs, escaped,
                   memo, replays>>
    /\ UNCHANGED <<webhookSecret, cvars, svars>>

\* await webhooks.verify(body, signature): only a rejection reaches the catch
Verify ==
    /\ pc = "verify"
    /\ IF libError
       THEN /\ verified' = "threw"
            /\ logs' = Append(logs,
                         Line("error", "Webhook signature verification failed:"))
            /\ responses' = Append(responses, InvalidSignatureResponse)
            /\ pc' = "done"
       ELSE /\ verified' = IF verify(req.body, req.signature) THEN "true"
                           ELSE "false"
            /\ pc' = "parse"
            /\ UNCHANGED <<logs, responses>>
    /\ UNCHANGED <<req, libError, parsed, payload, escaped, memo, replays>>
    /\ UNCHANGED <<webhookSecret, cvars, svars>>

Parse ==
    /\ pc = "parse"
    /\ LET r == JSONparse(req.body)
       IN IF r.ok
          THEN /\ parsed' = "ok"
               /\ payload' = r.val
               /\ pc' = "log"
               /\ UNCHANGED <<logs, responses>>
          ELSE /\ parsed' = "threw"
               /\ logs' = Append(logs,
                            Line("error", "Failed to parse webhook payload:"))
               /\ responses' = Append(responses, InvalidJsonResponse)
               /\ pc' = "done"
               /\ UNCHANGED payload
    /\ UNCHANGED <<req, libError, verified, escaped, memo, replays>>
    /\ UNCHANGED <<webhookSecret, cvars, svars>>

LogReceived ==
    /\ pc = "log"
    /\ logs' = Append(logs, ReceivedLine)
    /\ pc' = "dispatch"
    /\ UNCHANGED <<req, libError, verified, parsed, payload, responses,
                   escaped, memo, replays>>
    /\ UNCHANGED <<webhookSecret, cvars, svars>>

\* if (event === "pull_request") { ... }: payload.action is not optional-chained
Dispatch ==
    /\ pc = "dispatch"
    /\ IF ~StrictEqStr(req.event, "pull_request")
       THEN /\ pc' = "ack"
            /\ UNCHANGED <<logs, escaped>>
       ELSE IF GetThrows(payload)
       THEN /\ escaped' = TRUE
            /\ pc' = "done"
            /\ UNCHANGED logs
       ELSE /\ logs' = logs \o PullRequestLines
            /\ pc' = "ack"
            /\ UNCHANGED escaped
    /\ UNCHANGED <<req, libError, verified, parsed, payload, responses, memo,
                   replays>>
    /\ UNCHANGED <<webhookSecret, cvars, svars>>

\* an acknowledgement that also starts createReviewComment
AckAndComment ==
    /\ pc = "ack"
    /\ responses' = Append(responses, AckResponse)
    /\ pc' = "done"
    /\ cpc' = "checkEnv"
    /\ UNCHANGED <<req, libError, verified, parsed, payload, logs, escaped,
                   memo, replays>>
    /\ UNCHANGED <<webhookSecret, env, authOptions, authType, calls, clogs,
                   cresponses, cescaped, svars>>

Ack ==
    /\ pc = "ack"
    /\ responses' = Append(responses, AckResponse)
    /\ pc' = "done"
    /\ UNCHANGED <<req, libError, verified, parsed, payload, logs, escaped,
                   memo, replays>>
    /\ UNCHANGED <<webhookSecret, cvars, svars>>

\* what the transport got back from the handler
Outcome == [responses |-> responses, escaped |-> escaped]

\* the handler has returned or thrown; the server waits for the next delivery
Return ==
    /\ pc = "done"
    /\ pc' = "idle"
    /\ memo' = memo \cup {Outcome}
    /\ UNCHANGED <<req, libError, verified, parsed, payload, logs, responses,
                   escaped, replays>>
    /\ UNCHANGED <<webhookSecret, cvars, svars>>

----------------------------------------------------------------------------
(* createReviewComment *)

\* an environment variable: unset, or the characters of its value
Unset == [set |-> FALSE, chars |-> <<>>]
Val(chars) == [set |-> TRUE, chars |-> chars]

\* !value for a string | undefined
Empty(value) == ~value.set \/ value.chars = <<>>

Digits == {"0", "1", "2", "3", "4", "5", "6", "7", "8", "9"}

DigitValue(ch) ==
    CASE ch = "0" -> 0 [] ch = "1" -> 1 [] ch = "2" -> 2 [] ch = "3" -> 3
      [] ch = "4" -> 4 [] ch = "5" -> 5 [] ch = "6" -> 6 [] ch = "7" -> 7
      [] ch = "8" -> 8 [] ch = "9" -> 9

NaN == [nan |-> TRUE, n |-> 0]
Number(n) == [nan |-> FALSE, n |-> n]

\* the value of the leading decimal digits of chars from position i on
RECURSIVE LeadingDigits(_, _, _)
LeadingDigits(chars, i, acc) ==
    IF i > Len(chars) \/ chars[i] \notin Digits THEN acc
    ELSE LeadingDigits(chars, i + 1, 10 * acc + DigitValue(chars[i]))

\* parseInt(value, 10) of an unsigned value without leading blanks
parseInt(chars) ==
    IF chars = <<>> \/ chars[1] \notin Digits THEN NaN
    ELSE Number(LeadingDigits(chars, 1, 0))

\* !x for a number: 0 and NaN are falsy
FalsyNumber(x) == x.nan \/ x.n = 0

AppIds == {Unset, Val(<<>>), Val(<<"1", "2", "3">>), Val(<<"a", "p", "p">>),
           Val(<<"0">>)}
PrivateKeys == {Unset, Val(<<>>), Val(<<"P", "E", "M">>)}
InstallationIds == {Unset, Val(<<>>), Val(<<"4", "5">>), Val(<<"x">>)}

Args == [owner |-> "octo", repo |-> "demo", pullNumber |-> "42",
         body |-> "Looks good"]

\* a configuration check that fails only when both values are missing
MissingBothCredentials == Empty(env.appId) /\ Empty(env.privateKey)

\* !appId || !privateKey
MissingCredentials == Empty(env.appId) \/ Empty(env.privateKey)

MissingCredentialsResponse ==
    cjson({<<"error",
             JStr("Missing GITHUB_APP_ID or GITHUB_PRIVATE_KEY environment variables")>>},
          500)
NoAppDataResponse == cjson({<<"error", JStr("Failed to retrieve app data")>>}, 500)
FailedResponse == cjson({<<"error", JStr("Failed to create review comment")>>}, 500)
CreatedResponse(comment) ==
    cjson({<<"ok", JBool("true")>>,
           <<"message", JStr("Review comment created successfully")>>,
           <<"commentId", comment.id>>,
           <<"commentUrl", comment.html_url>>}, 200)

\* { appId, privateKey, ...(installationId && { installationId }) }
AuthObject ==
    [appId |-> parseInt(env.appId.chars),
     privateKey |-> env.privateKey.chars,
     hasInstallationId |-> ~Empty(env.installationId),
     installationId |-> IF Empty(env.installationId) THEN NaN
                        ELSE parseInt(env.installationId.chars)]

\* createAppAuth, run by the Octokit constructor, rejects these options
StrategyRejects(options) ==
    \/ FalsyNumber(options.appId)
    \/ options.privateKey = <<>>
    \/ (options.hasInstallationId /\ FalsyNumber(options.installationId))

\* a mode choice that takes an empty GITHUB_INSTALLATION_ID for configured
AuthTypeWhenSet == IF env.installationId.set THEN "installation" ELSE "app"

\* installationId ? "installation" : "app"
AuthTypeAsked == IF Empty(env.installationId) THEN "app" ELSE "installation"

\* what the hosted API may answer
Failures == {"HttpError: Bad credentials"}
Comments == {[id |-> JNum("1001"),
              html_url |-> JStr("https://github.com/octo/demo/pull/42#issuecomment-1001")]}

NoAuthObject == [appId |-> NaN, privateKey |-> <<>>, hasInstallationId |-> FALSE,
                 installationId |-> NaN]

\* the function is called: arguments are logged, the environment is read
Invoke ==
    /\ cpc = "idle"
    /\ \E a \in AppIds, k \in PrivateKeys, i \in InstallationIds :
         env' = [appId |-> a, privateKey |-> k, installationId |-> i]
    /\ cpc' = "checkEnv"
    /\ authOptions' = NoAuthObject
    /\ authType' = "none"
    /\ calls' = <<>>
    /\ clogs' = <<Line("log", Args.owner \o " " \o Args.repo \o " "
                              \o Args.pullNumber \o " " \o Args.body)>>
    /\ cresponses' = <<>>
    /\ cescaped' = FALSE
    /\ UNCHANGED <<wvars, svars>>

CheckEnv ==
    /\ cpc = "checkEnv"
    /\ IF MissingCredentials
       THEN /\ cresponses' = Append(cresponses, MissingCredentialsResponse)
            /\ cpc' = "done"
       ELSE /\ cpc' = "construct"
            /\ UNCHANGED cresponses
    /\ UNCHANGED <<env, authOptions, authType, calls, clogs, cescaped>>
    /\ UNCHANGED <<wvars, svars>>

\* new Octokit({ authStrategy: createAppAuth, auth }): outside the try block
Construct ==
    /\ cpc = "construct"
    /\ authOptions' = AuthObject
    /\ calls' = Append(calls, "new Octokit")
    /\ IF StrategyRejects(AuthObject)
       THEN /\ cescaped' = TRUE
            /\ cpc' = "done"
       ELSE /\ cpc' = "auth"
            /\ UNCHANGED cescaped
    /\ UNCHANGED <<env, authType, clogs, cresponses>>
    /\ UNCHANGED <<wvars, svars>>

\* catch (error): the detail is logged, the caller gets the generic message
Caught(detail) ==
    /\ clogs' = Append(clogs, Line("error", "Error creating review comment: "
                                            \o detail))
    /\ cresponses' = Append(cresponses, FailedResponse)
    /\ cpc' = "done"

\* await octokit.auth({ type })
Authenticate ==
    /\ cpc = "auth"
    /\ authType' = AuthTypeAsked
    /\ calls' = Append(calls, "auth")
    /\ \/ /\ clogs' = Append(clogs, Line("log", "Authenticated successfully: "
                                                \o AuthTypeAsked))
          /\ cpc' = "getApp"
          /\ UNCHANGED cresponses
       \/ \E detail \in Failures : Caught(detail)
    /\ UNCHANGED <<env, authOptions, cescaped>>
    /\ UNCHANGED <<wvars, svars>>

\* an identity call whose empty answer does not stop the function
GetAppUnchecked ==
    /\ cpc = "getApp"
    /\ calls' = Append(calls, "GET /app")
    /\ \/ /\ clogs' = Append(clogs, Line("log", "Authenticated as GitHub App: demo-app"))
          /\ cpc' = "createComment"
          /\ UNCHANGED cresponses
       \/ /\ cpc' = "createComment"
          /\ UNCHANGED <<clogs, cresponses>>
       \/ \E detail \in Failures : Caught(detail)
    /\ UNCHANGED <<env, authOptions, authType, cescaped>>
    /\ UNCHANGED <<wvars, svars>>

\* await octokit.request("GET /app")
GetApp ==
    /\ cpc = "getApp"
    /\ calls' = Append(calls, "GET /app")
    /\ \/ /\ clogs' = Append(clogs, Line("log", "Authenticated as GitHub App: demo-app"))
          /\ cpc' = "createComment"
          /\ UNCHANGED cresponses
       \/ /\ cresponses' = Append(cresponses, NoAppDataResponse)
          /\ cpc' = "done"
          /\ UNCHANGED clogs
       \/ \E detail \in Failures : Caught(detail)
    /\ UNCHANGED <<env, authOptions, authType, cescaped>>
    /\ UNCHANGED <<wvars, svars>>

\* await octokit.rest.issues.createComment(...), then the success response
CreateComment ==
    /\ cpc = "createComment"
    /\ calls' = Append(calls, "createComment")
    /\ \/ \E comment \in Comments :
            /\ clogs' = Append(clogs, Line("log", "Created review comment on PR #"
                                 \o Args.pullNumber \o ": " \o Show(comment.id)))
            /\ cresponses' = Append(cresponses, CreatedResponse(comment))
            /\ cpc' = "done"
       \/ \E detail \in Failures : Caught(detail)
    /\ UNCHANGED <<env, authOptions, authType, cescaped>>
    /\ UNCHANGED <<wvars, svars>>

\* the promise settles; the helper may be called again
Settle ==
    /\ cpc = "done"
    /\ cpc' = "idle"
    /\ UNCHANGED <<env, authOptions, authType, calls, clogs, cresponses, cescaped>>
    /\ UNCHANGED <<wvars, svars>>

----------------------------------------------------------------------------

Init ==
    /\ req = NoRequest
    /\ libError = FALSE
    /\ pc = "idle"
    /\ verified = "none"
    /\ parsed = "none"
    /\ payload = Undefined
    /\ logs = <<>>
    /\ responses = <<>>
    /\ escaped = FALSE
    /\ memo = {}
    /\ replays = 0
    /\ env = [appId |-> Unset, privateKey |-> Unset, installationId |-> Unset]
    /\ cpc = "idle"
    /\ authOptions = NoAuthObject
    /\ authType = "none"
    /\ calls = <<>>
    /\ clogs = <<>>
    /\ cresponses = <<>>
    /\ cescaped = FALSE
    /\ webhookSecret = Secret
    /\ spc = "idle"
    /\ runs = 0
    /\ live = {}
    /\ created = 0
    /\ sandbox = 0
    /\ handlers = {}
    /\ sresult = "none"

Next ==
    \/ Receive
    \/ Replay
    \/ CheckPresence
    \/ Verify
    \/ Parse
    \/ LogReceived
    \/ Dispatch
    \/ Ack
    \/ Return

vars == <<wvars, cvars, svars>>

Spec == Init /\ [][Next]_vars

NextComment ==
    \/ Invoke
    \/ CheckEnv
    \/ Construct
    \/ Authenticate
    \/ GetApp
    \/ CreateComment
    \/ Settle

SpecComment == Init /\ [][NextComment]_vars

----------------------------------------------------------------------------
(* setupOpenCodeServer, the planned sandbox workflow *)

MaxRuns == 3        \* runs of setupOpenCodeServer that a behaviour follows

\* a step of the try block threw: control goes to the catch block
Throw == spc' = "catch"

\* let sandbox = null; try {
Begin ==
    /\ spc \in {"idle", "done"}
    /\ runs < MaxRuns
    /\ runs' = runs + 1
    /\ sandbox' = 0
    /\ created' = 0
    /\ sresult' = "none"
    /\ spc' = "create"
    /\ UNCHANGED <<live, handlers>>
    /\ UNCHANGED <<wvars, cvars>>

\* createSandboxWithPRBranch: await daytona.createSandbox(...)
CreateSandbox ==
    /\ spc = "create"
    /\ \/ /\ created' = runs
          /\ live' = live \cup {runs}
          /\ spc' = "clone"
       \/ /\ Throw
          /\ UNCHANGED <<created, live>>
    /\ UNCHANGED <<runs, sandbox, handlers, sresult>>
    /\ UNCHANGED <<wvars, cvars>>

\* createSandboxWithPRBranch: await daytona.gitClone(...); on return the
\* caller sets sandbox = { id: prSandbox.sandboxId }
GitClone ==
    /\ spc = "clone"
    /\ \/ /\ sandbox' = created
          /\ spc' = "install"
       \/ /\ Throw
          /\ UNCHANGED sandbox
    /\ UNCHANGED <<runs, live, created, handlers, sresult>>
    /\ UNCHANGED <<wvars, cvars>>

\* a step of the try block that only calls the provider: it returns or throws
CallStep(at, next) ==
    /\ spc = at
    /\ spc' = next \/ Throw
    /\ UNCHANGED <<runs, live, created, sandbox, handlers, sresult>>
    /\ UNCHANGED <<wvars, cvars>>

\* await installOpenCodeServer(sandboxId): throws on a non-zero exit code
Install ==
    /\ spc = "install"
    /\ CallStep("install", "preview")

\* await daytona.previewLink(...), then the agent configuration
PreviewLink ==
    /\ spc = "preview"
    /\ CallStep("preview", "start")

\* await daytona.executeCommand(opencode server)
StartServer ==
    /\ spc = "start"
    /\ CallStep("start", "public")

\* await createPublicPreviewLink(...)
PublicPreview ==
    /\ spc = "public"
    /\ CallStep("public", "handler")

\* setupCleanupHandler(sandboxId); return { ... }
Finish ==
    /\ spc = "handler"
    /\ handlers' = handlers \cup {sandbox}
    /\ sresult' = "returned"
    /\ spc' = "done"
    /\ UNCHANGED <<runs, live, created, sandbox>>
    /\ UNCHANGED <<wvars, cvars>>

\* catch (error) { if (sandbox) await cleanupSandbox(sandbox.id); throw error }
\* daytona.destroySandbox may itself fail, and then its error is thrown
Catch ==
    /\ spc = "catch"
    /\ IF sandbox # 0
       THEN live' = live \ {sandbox} \/ UNCHANGED live
       ELSE UNCHANGED live
    /\ sresult' = "threw"
    /\ spc' = "done"
    /\ UNCHANGED <<runs, created, sandbox, handlers>>
    /\ UNCHANGED <<wvars, cvars>>

NextSandbox ==
    \/ Begin
    \/ CreateSandbox
    \/ GitClone
    \/ Install
    \/ PreviewLink
    \/ StartServer
    \/ PublicPreview
    \/ Finish
    \/ Catch

SpecSandbox == Init /\ [][NextSandbox]_vars

----------------------------------------------------------------------------
(* Properties of the webhook handler *)

NonEmptyString(x) == x.t = "str" /\ x.v # ""

\* the delivery has an event header, a signature header and a body
Present ==
    /\ NonEmptyString(req.event)
    /\ NonEmptyString(req.signature)
    /\ req.body # EmptyBody

\* the signature header is the digest of the received body under the secret
SignatureMatches == req.signature.v = sign(Secret, req.body)

Error(status, message) == [status |-> status, body |-> {<<"error", JStr(message)>>}]

\* {ok: true, event, deliveryId} with status 200
Acknowledgement ==
    [status |-> 200,
     body |-> {<<"ok", JBool("true")>>, <<"event", req.event>>}
              \cup (IF req.deliveryId = Undefined THEN {}
                    ELSE {<<"deliveryId", req.deliveryId>>})]

CorrelationLogged == \E i \in 1..Len(logs) : logs[i].level = "log"
Acknowledged == \E i \in 1..Len(responses) : responses[i].status = 200

\* C1: JSON parsing, the correlation log line, the dispatch log lines and
\* the 200 acknowledgement happen only for a delivery whose signature
\* verification succeeded on the body as received.
C1_VerificationGatesProcessing ==
    (parsed # "none" \/ CorrelationLogged \/ Acknowledged
        \/ pc \in {"log", "dispatch", "ack"})
    => verified = "true"

\* C2: a delivery with event, signature and body whose signature does not
\* match (or on which the library raises) is answered 401 "Invalid
\* signature" and its body is never parsed.
C2_BadSignatureIs401 ==
    (pc = "done" /\ Present /\ (~SignatureMatches \/ libError))
    => /\ responses = <<Error(401, "Invalid signature")>>
       /\ parsed = "none"

\* C3: a delivery whose event header, signature header or body is missing
\* or empty is answered 400 "Missing required headers or body", and neither
\* verification nor parsing is attempted.
C3_MissingFieldsIs400 ==
    (pc # "check" /\ ~Present)
    => /\ verified = "none"
       /\ parsed = "none"
       /\ pc \in {"idle", "done"}
       /\ (pc = "done"
             => responses = <<Error(400, "Missing required headers or body")>>)

\* a delivery without body and with a signature made under another secret
\* was answered 400
C3_Witness ==
    /\ pc = "done"
    /\ req.body = EmptyBody
    /\ NonEmptyString(req.event)
    /\ req.signature = JStr(sign(OtherSecret, req.body))
    /\ responses = <<Error(400, "Missing required headers or body")>>

\* C4: every delivery ends with exactly one response, one of the four
\* structured ones, and no error leaves the handler.
C4_OneStructuredResponse ==
    pc = "done"
    => /\ ~escaped
       /\ Len(responses) = 1
       /\ responses[1] \in {Error(400, "Missing required headers or body"),
                            Error(401, "Invalid signature"),
                            Error(400, "Invalid JSON payload"),
                            Acknowledgement}

\* C5: a correctly signed pull_request delivery whose body parses as JSON
\* raises no error whatever fields the payload lacks, and is answered 200.
C5_AbsentFieldsAreHarmless ==
    (pc = "done" /\ verified = "true" /\ req.event = JStr("pull_request")
        /\ req.body \in WellFormedBodies)
    => /\ ~escaped
       /\ responses = <<Acknowledgement>>

\* C6: a delivery whose signature verifies and whose body is not JSON is
\* answered 400 "Invalid JSON payload", without correlation log, dispatch
\* log or acknowledgement.
C6_MalformedJsonIs400 ==
    (pc \in {"done", "log", "dispatch", "ack"} /\ verified = "true"
        /\ req.body \in MalformedBodies)
    => /\ pc = "done"
       /\ responses = <<Error(400, "Invalid JSON payload")>>
       /\ ~CorrelationLogged
       /\ ~escaped

\* a correctly signed body with an unclosed object was answered 400
C6_Witness ==
    /\ pc = "done"
    /\ verified = "true"
    /\ req.body = <<P("{"), S("action"), P(":"), S("opened")>>
    /\ responses = <<Error(400, "Invalid JSON payload")>>

\* C7: a delivery that passes the presence check, verification and parsing
\* is answered 200 {ok, event, deliveryId} whatever its event type, also
\* without delivery id; for other events than pull_request only the
\* correlation line is logged.
C7_ParsedDeliveryIs200 ==
    (pc = "done" /\ Present /\ verified = "true" /\ parsed = "ok")
    => /\ responses = <<Acknowledgement>>
       /\ (req.event # JStr("pull_request") => Len(logs) = 1)

\* C8: a replayed delivery gets the response its earlier deliveries got.
C8_ReplayGivesSameResponse ==
    pc = "done" => \A earlier \in memo : earlier = Outcome

\* a delivery replayed twice was acknowledged again
C8_Witness ==
    /\ pc = "done"
    /\ replays >= 2
    /\ Acknowledged
    /\ memo = {Outcome}

----------------------------------------------------------------------------
(* Properties of createReviewComment *)

CredentialMissing ==
    \/ env.appId \in {Unset, Val(<<>>)}
    \/ env.privateKey \in {Unset, Val(<<>>)}

ErrorLogged == \E i \in 1..Len(clogs) : clogs[i].level = "error"

\* C9: without GITHUB_APP_ID or GITHUB_PRIVATE_KEY the helper returns 500
\* with the missing-variables message and constructs no client, does not
\* authenticate and makes no network call.
C9_MissingCredentialsIs500 ==
    (cpc \notin {"idle", "checkEnv"} /\ CredentialMissing)
    => /\ cpc = "done"
       /\ cresponses = <<Error(500,
             "Missing GITHUB_APP_ID or GITHUB_PRIVATE_KEY environment variables")>>
       /\ calls = <<>>
       /\ authType = "none"
       /\ ~cescaped

\* the helper ran with an application id and an empty private key
C9_Witness ==
    /\ cpc = "done"
    /\ env.appId = Val(<<"1", "2", "3">>)
    /\ env.privateKey = Val(<<>>)
    /\ Len(cresponses) = 1
    /\ cresponses[1].status = 500

\* C10: with both credentials present, an error of the authentication
\* stage (the construction of the authentication context included), of the
\* identity call or of the comment call is caught and returned as 500
\* "Failed to create review comment"; none escapes the function.
C10_StageErrorsAreCaught ==
    (cpc = "done" /\ ~CredentialMissing)
    => /\ ~cescaped
       /\ (ErrorLogged
             => cresponses = <<Error(500, "Failed to create review comment")>>)

Logged(text) == \E i \in 1..Len(clogs) : clogs[i] = [level |-> "log", text |-> text]

Called(name) == \E i \in 1..Len(calls) : calls[i] = name

\* C11: the comment-creation call is issued at most once, and only after
\* the authentication call and the GET /app call succeeded and the latter
\* returned data; without app data the function returns 500 and issues no
\* comment-creation call.
C11_CommentAfterIdentityConfirmed ==
    /\ Cardinality({i \in 1..Len(calls) : calls[i] = "createComment"}) <= 1
    /\ Called("createComment")
         => /\ calls = <<"new Octokit", "auth", "GET /app", "createComment">>
            /\ Logged("Authenticated successfully: " \o authType)
            /\ Logged("Authenticated as GitHub App: demo-app")
    /\ (cpc \in {"createComment", "done"} /\ Called("GET /app")
          /\ ~Logged("Authenticated as GitHub App: demo-app") /\ ~ErrorLogged)
         => /\ cpc = "done"
            /\ cresponses = <<Error(500, "Failed to retrieve app data")>>
            /\ ~Called("createComment")

\* the comment was created after both earlier calls succeeded
C11_Witness ==
    /\ cpc = "done"
    /\ calls = <<"new Octokit", "auth", "GET /app", "createComment">>
    /\ Len(cresponses) = 1
    /\ cresponses[1].status = 200

----------------------------------------------------------------------------
(* Further properties of the webhook handler *)

\* the action-specific line the delivery's body calls for
ActionLineFor(body) ==
    CASE body = Event("opened", PrFull) -> "New pull request #42 opened by alice"
      [] body = Event("closed", PrMerged("true")) ->
            "Pull request #42 closed (merged: true)"
      [] body = Event("closed", PrMerged("false")) ->
            "Pull request #42 closed (merged: false)"
      [] body = Event("synchronize", PrNoUser) ->
            "Pull request #7 updated with new commits"
      [] body = <<P("{"), S("action"), P(":"), S("reopened"), P("}")>> ->
            "Pull request #undefined reopened"
      [] body = Event("labeled", <<S("not a pull request")>>) ->
            "Pull request #undefined action: labeled"
      [] OTHER -> "Pull request #undefined action: undefined"

\* C12: a verified, parsed pull_request delivery writes exactly one
\* action-specific line, chosen by the action field: opened, closed (with
\* the PR number and the merged flag), reopened, synchronize, and the
\* generic "action: <action>" line for any other or absent action.
C12_OneActionLine ==
    (pc \in {"ack", "done"} /\ verified = "true" /\ parsed = "ok"
        /\ req.event = JStr("pull_request"))
    => /\ Len(logs) = 3
       /\ logs[3] = [level |-> "log", text |-> ActionLineFor(req.body)]

\* C13: the handler changes nothing but its log and its response: the
\* secret keeps its configured value, createReviewComment is never started,
\* and no outbound call or sandbox operation is made.
C13_HandlerOnlyLogsAndResponds ==
    /\ webhookSecret = Secret
    /\ cpc = "idle"
    /\ calls = <<>>
    /\ authType = "none"
    /\ cresponses = <<>>
    /\ clogs = <<>>
    /\ spc = "idle"
    /\ live = {}
    /\ handlers = {}

\* a pull_request delivery was dispatched and acknowledged
C13_Witness ==
    /\ pc = "done"
    /\ Acknowledged
    /\ Len(logs) = 3
    /\ req.event = JStr("pull_request")

----------------------------------------------------------------------------
(* Further properties of createReviewComment *)

InstallationConfigured == env.installationId \notin {Unset, Val(<<>>)}

\* C14: authentication is asked in "installation" mode exactly when
\* GITHUB_INSTALLATION_ID is configured (non-empty) and in "app" mode
\* otherwise, and the installation id is given to the authentication
\* context exactly in installation mode.
C14_AuthModeFollowsInstallationId ==
    /\ Called("new Octokit")
         => (authOptions.hasInstallationId <=> InstallationConfigured)
    /\ authType # "none"
         => /\ authType = (IF InstallationConfigured THEN "installation" ELSE "app")
            /\ authOptions.hasInstallationId <=> (authType = "installation")

\* installation mode was asked with the configured installation id 45
C14_Witness ==
    /\ authType = "installation"
    /\ env.installationId = Val(<<"4", "5">>)
    /\ authOptions.hasInstallationId
    /\ authOptions.installationId = Number(45)
    /\ Called("auth")

\* app mode was asked with an empty GITHUB_INSTALLATION_ID
C14_WitnessApp ==
    /\ authType = "app"
    /\ env.installationId = Val(<<>>)
    /\ ~authOptions.hasInstallationId

----------------------------------------------------------------------------
(* Properties of setupOpenCodeServer *)

\* C15: when a step fails after the sandbox was created (a failed clone
\* inside createSandboxWithPRBranch included), the sandbox is destroyed
\* before the error is rethrown: a failing run leaves no sandbox behind.
C15_FailedRunLeavesNoSandbox ==
    (spc = "done" /\ sresult = "threw" /\ created # 0) => created \notin live

====
